---- MODULE Spec2Model ----
(***************************************************************************)
(* Model of src/main.py: a producer thread puts 0..4 on a shared Queue and *)
(* prints each item, a consumer thread drains the queue while it is not    *)
(* empty, and the main flow starts and joins the two threads one after the *)
(* other.                                                                  *)
(*                                                                         *)
(* Every variable is a function of the run: Spec executes the program      *)
(* once (runs = {1}); PairSpec executes two independent runs side by side  *)
(* (runs = {1, 2}) so that two schedules of the same program can be        *)
(* compared.                                                               *)
(***************************************************************************)
EXTENDS Integers, Sequences, FiniteSets, TLC

VARIABLES
    runs,             \* the runs of the program that are executing
    mainpc,           \* position of the main flow (lines 19..26)
    producer_thread,  \* state of the Thread object of line 19
    consumer_thread,  \* state of the Thread object of line 20
    ppc,              \* position of producer() in its thread
    cpc,              \* position of consumer() in its thread
    it,               \* next value of the range(5) iterator of line 8
    i,                \* producer's loop variable
    item,             \* consumer's local variable
    queue,            \* contents of the Queue, head first
    out,              \* lines written to standard output
    trace             \* history: queue operations and prints, in order

vars == <<runs, mainpc, producer_thread, consumer_thread, ppc, cpc, it, i,
          item, queue, out, trace>>

\* range(5) of line 8
NumItems == 5

\* value of a local variable that is not bound yet
Unbound == -1

Digit == <<"0", "1", "2", "3", "4", "5", "6", "7", "8", "9">>

\* str() of a non-negative integer, as the f-strings of lines 10 and 16 format it
RECURSIVE Str(_)
Str(n) == IF n < 10 THEN Digit[n + 1]
          ELSE Str(n \div 10) \o Digit[(n % 10) + 1]

\* f"Produced: {i}"
ProducedLine(v) == "Produced: " \o Str(v)

\* f"Consumed: {item}"
ConsumedLine(v) == "Consumed: " \o Str(v)

\* Queue.empty()
Empty(q) == Len(q) = 0

\* Queue() of line 4 is built without a maxsize: 0, which means no limit
maxsize == 0

\* Full of a queue that was built with maxsize 3
Full_bounded(q) == Len(q) >= 3

\* the condition put() waits on: a size limit is set and it is reached
Full(q) == maxsize > 0 /\ Len(q) >= maxsize

\* the state every run starts in: module level, before line 19
InitRun(rs) ==
    /\ runs = rs
    /\ mainpc = [r \in rs |-> "L19"]
    /\ producer_thread = [r \in rs |-> "unset"]
    /\ consumer_thread = [r \in rs |-> "unset"]
    /\ ppc = [r \in rs |-> "idle"]
    /\ cpc = [r \in rs |-> "idle"]
    /\ it = [r \in rs |-> 0]
    /\ i = [r \in rs |-> Unbound]
    /\ item = [r \in rs |-> Unbound]
    /\ queue = [r \in rs |-> <<>>]
    /\ out = [r \in rs |-> <<>>]
    /\ trace = [r \in rs |-> <<>>]

Init == InitRun({1})

PairInit == InitRun({1, 2})

-----------------------------------------------------------------------------
(* producer(), lines 7-10 *)

\* ProducerFor with the loop bound off by one (a sixth item)
ProducerFor_offbyone(r) ==
    /\ ppc[r] = "L8"
    /\ IF it[r] <= NumItems
       THEN /\ i' = [i EXCEPT ![r] = it[r]]
            /\ it' = [it EXCEPT ![r] = it[r] + 1]
            /\ ppc' = [ppc EXCEPT ![r] = "L9"]
       ELSE /\ ppc' = [ppc EXCEPT ![r] = "return"]
            /\ UNCHANGED <<i, it>>
    /\ UNCHANGED <<runs, mainpc, producer_thread, consumer_thread, cpc, item,
                   queue, out, trace>>

\* line 8: the for statement asks the range iterator for the next value
ProducerFor(r) ==
    /\ ppc[r] = "L8"
    /\ IF it[r] < NumItems
       THEN /\ i' = [i EXCEPT ![r] = it[r]]
            /\ it' = [it EXCEPT ![r] = it[r] + 1]
            /\ ppc' = [ppc EXCEPT ![r] = "L9"]
       ELSE /\ ppc' = [ppc EXCEPT ![r] = "return"]
            /\ UNCHANGED <<i, it>>
    /\ UNCHANGED <<runs, mainpc, producer_thread, consumer_thread, cpc, item,
                   queue, out, trace>>

\* ProducerPut that reaches line 10 without having enqueued the item
ProducerPut_skip(r) ==
    /\ ppc[r] = "L9"
    /\ ppc' = [ppc EXCEPT ![r] = "L10"]
    /\ UNCHANGED <<runs, mainpc, producer_thread, consumer_thread, cpc, it, i,
                   item, queue, out, trace>>

\* line 9: queue.put(i); put waits while the queue is full
ProducerPut(r) ==
    /\ ppc[r] = "L9"
    /\ ~Full(queue[r])
    /\ queue' = [queue EXCEPT ![r] = Append(queue[r], i[r])]
    /\ trace' = [trace EXCEPT ![r] =
                    Append(trace[r], [by |-> "producer", op |-> "put", item |-> i[r]])]
    /\ ppc' = [ppc EXCEPT ![r] = "L10"]
    /\ UNCHANGED <<runs, mainpc, producer_thread, consumer_thread, cpc, it, i,
                   item, out>>

\* line 10: print(f"Produced: {i}")
ProducerPrint(r) ==
    /\ ppc[r] = "L10"
    /\ out' = [out EXCEPT ![r] = Append(out[r], ProducedLine(i[r]))]
    /\ trace' = [trace EXCEPT ![r] =
                    Append(trace[r], [by |-> "producer", op |-> "print",
                                      line |-> ProducedLine(i[r])])]
    /\ ppc' = [ppc EXCEPT ![r] = "L8"]
    /\ UNCHANGED <<runs, mainpc, producer_thread, consumer_thread, cpc, it, i,
                   item, queue>>

\* producer() returns and its thread ends
ProducerReturn(r) ==
    /\ ppc[r] = "return"
    /\ ppc' = [ppc EXCEPT ![r] = "done"]
    /\ producer_thread' = [producer_thread EXCEPT ![r] = "stopped"]
    /\ UNCHANGED <<runs, mainpc, consumer_thread, cpc, it, i, item, queue, out,
                   trace>>

-----------------------------------------------------------------------------
(* consumer(), lines 13-16 *)

\* ConsumerWhile that leaves the loop while one item is still queued
ConsumerWhile_early(r) ==
    /\ cpc[r] = "L14"
    /\ trace' = [trace EXCEPT ![r] =
                    Append(trace[r], [by |-> "consumer", op |-> "empty",
                                      result |-> Empty(queue[r])])]
    /\ IF Len(queue[r]) > 1
       THEN cpc' = [cpc EXCEPT ![r] = "L15"]
       ELSE cpc' = [cpc EXCEPT ![r] = "return"]
    /\ UNCHANGED <<runs, mainpc, producer_thread, consumer_thread, ppc, it, i,
                   item, queue, out>>

\* ConsumerWhile that enters the loop body whatever empty() returned
ConsumerWhile_always(r) ==
    /\ cpc[r] = "L14"
    /\ trace' = [trace EXCEPT ![r] =
                    Append(trace[r], [by |-> "consumer", op |-> "empty",
                                      result |-> Empty(queue[r])])]
    /\ cpc' = [cpc EXCEPT ![r] = "L15"]
    /\ UNCHANGED <<runs, mainpc, producer_thread, consumer_thread, ppc, it, i,
                   item, queue, out>>

\* line 14: while not queue.empty()
ConsumerWhile(r) ==
    /\ cpc[r] = "L14"
    /\ trace' = [trace EXCEPT ![r] =
                    Append(trace[r], [by |-> "consumer", op |-> "empty",
                                      result |-> Empty(queue[r])])]
    /\ IF ~Empty(queue[r])
       THEN cpc' = [cpc EXCEPT ![r] = "L15"]
       ELSE cpc' = [cpc EXCEPT ![r] = "return"]
    /\ UNCHANGED <<runs, mainpc, producer_thread, consumer_thread, ppc, it, i,
                   item, queue, out>>

\* ConsumerGet that reads the head item and leaves it in the queue
ConsumerGet_peek(r) ==
    /\ cpc[r] = "L15"
    /\ ~Empty(queue[r])
    /\ item' = [item EXCEPT ![r] = Head(queue[r])]
    /\ trace' = [trace EXCEPT ![r] =
                    Append(trace[r], [by |-> "consumer", op |-> "get",
                                      item |-> Head(queue[r])])]
    /\ cpc' = [cpc EXCEPT ![r] = "L16"]
    /\ UNCHANGED <<runs, mainpc, producer_thread, consumer_thread, ppc, it, i,
                   queue, out>>

\* ConsumerGet on a LIFO queue: removes the newest item
ConsumerGet_lifo(r) ==
    /\ cpc[r] = "L15"
    /\ ~Empty(queue[r])
    /\ item' = [item EXCEPT ![r] = queue[r][Len(queue[r])]]
    /\ queue' = [queue EXCEPT ![r] = SubSeq(queue[r], 1, Len(queue[r]) - 1)]
    /\ trace' = [trace EXCEPT ![r] =
                    Append(trace[r], [by |-> "consumer", op |-> "get",
                                      item |-> queue[r][Len(queue[r])]])]
    /\ cpc' = [cpc EXCEPT ![r] = "L16"]
    /\ UNCHANGED <<runs, mainpc, producer_thread, consumer_thread, ppc, it, i,
                   out>>

\* line 15: item = queue.get(); get blocks while the queue is empty
ConsumerGet(r) ==
    /\ cpc[r] = "L15"
    /\ ~Empty(queue[r])
    /\ item' = [item EXCEPT ![r] = Head(queue[r])]
    /\ queue' = [queue EXCEPT ![r] = Tail(queue[r])]
    /\ trace' = [trace EXCEPT ![r] =
                    Append(trace[r], [by |-> "consumer", op |-> "get",
                                      item |-> Head(queue[r])])]
    /\ cpc' = [cpc EXCEPT ![r] = "L16"]
    /\ UNCHANGED <<runs, mainpc, producer_thread, consumer_thread, ppc, it, i,
                   out>>

\* ConsumerPrint that loops back to get() without the emptiness check
ConsumerPrint_nocheck(r) ==
    /\ cpc[r] = "L16"
    /\ out' = [out EXCEPT ![r] = Append(out[r], ConsumedLine(item[r]))]
    /\ trace' = [trace EXCEPT ![r] =
                    Append(trace[r], [by |-> "consumer", op |-> "print",
                                      line |-> ConsumedLine(item[r])])]
    /\ cpc' = [cpc EXCEPT ![r] = "L15"]
    /\ UNCHANGED <<runs, mainpc, producer_thread, consumer_thread, ppc, it, i,
                   item, queue>>

\* line 16: print(f"Consumed: {item}")
ConsumerPrint(r) ==
    /\ cpc[r] = "L16"
    /\ out' = [out EXCEPT ![r] = Append(out[r], ConsumedLine(item[r]))]
    /\ trace' = [trace EXCEPT ![r] =
                    Append(trace[r], [by |-> "consumer", op |-> "print",
                                      line |-> ConsumedLine(item[r])])]
    /\ cpc' = [cpc EXCEPT ![r] = "L14"]
    /\ UNCHANGED <<runs, mainpc, producer_thread, consumer_thread, ppc, it, i,
                   item, queue>>

\* consumer() returns and its thread ends
ConsumerReturn(r) ==
    /\ cpc[r] = "return"
    /\ cpc' = [cpc EXCEPT ![r] = "done"]
    /\ consumer_thread' = [consumer_thread EXCEPT ![r] = "stopped"]
    /\ UNCHANGED <<runs, mainpc, producer_thread, ppc, it, i, item, queue, out,
                   trace>>

-----------------------------------------------------------------------------
(* main flow, lines 19-26 *)

\* line 19: producer_thread = threading.Thread(target=producer)
MainCreateProducer(r) ==
    /\ mainpc[r] = "L19"
    /\ producer_thread' = [producer_thread EXCEPT ![r] = "initial"]
    /\ mainpc' = [mainpc EXCEPT ![r] = "L20"]
    /\ UNCHANGED <<runs, consumer_thread, ppc, cpc, it, i, item, queue, out,
                   trace>>

\* line 20: consumer_thread = threading.Thread(target=consumer)
MainCreateConsumer(r) ==
    /\ mainpc[r] = "L20"
    /\ consumer_thread' = [consumer_thread EXCEPT ![r] = "initial"]
    /\ mainpc' = [mainpc EXCEPT ![r] = "L22"]
    /\ UNCHANGED <<runs, producer_thread, ppc, cpc, it, i, item, queue, out,
                   trace>>

\* line 22: producer_thread.start() launches the thread and waits until it
\* has signalled that it is running
MainStartProducer(r) ==
    /\ mainpc[r] = "L22"
    /\ producer_thread[r] = "initial"
    /\ producer_thread' = [producer_thread EXCEPT ![r] = "starting"]
    /\ mainpc' = [mainpc EXCEPT ![r] = "L22_started_wait"]
    /\ UNCHANGED <<runs, consumer_thread, ppc, cpc, it, i, item, queue, out,
                   trace>>

\* the new thread signals that it is running and enters producer()
ProducerBootstrap(r) ==
    /\ producer_thread[r] = "starting"
    /\ producer_thread' = [producer_thread EXCEPT ![r] = "started"]
    /\ ppc' = [ppc EXCEPT ![r] = "L8"]
    /\ UNCHANGED <<runs, mainpc, consumer_thread, cpc, it, i, item, queue, out,
                   trace>>

\* MainStartProducerReturn of a main flow without line 23 (no join)
MainStartProducerReturn_skipjoin(r) ==
    /\ mainpc[r] = "L22_started_wait"
    /\ producer_thread[r] \in {"started", "stopped"}
    /\ mainpc' = [mainpc EXCEPT ![r] = "L25"]
    /\ UNCHANGED <<runs, producer_thread, consumer_thread, ppc, cpc, it, i, item,
                   queue, out, trace>>

\* line 22: start() returns once the thread has signalled
MainStartProducerReturn(r) ==
    /\ mainpc[r] = "L22_started_wait"
    /\ producer_thread[r] \in {"started", "stopped"}
    /\ mainpc' = [mainpc EXCEPT ![r] = "L23"]
    /\ UNCHANGED <<runs, producer_thread, consumer_thread, ppc, cpc, it, i, item,
                   queue, out, trace>>

\* line 23: producer_thread.join() is called
MainJoinProducer(r) ==
    /\ mainpc[r] = "L23"
    /\ mainpc' = [mainpc EXCEPT ![r] = "L23_join_wait"]
    /\ UNCHANGED <<runs, producer_thread, consumer_thread, ppc, cpc, it, i, item,
                   queue, out, trace>>

\* MainJoinProducerReturn of a join() that does not wait for the thread
MainJoinProducerReturn_nowait(r) ==
    /\ mainpc[r] = "L23_join_wait"
    /\ mainpc' = [mainpc EXCEPT ![r] = "L25"]
    /\ UNCHANGED <<runs, producer_thread, consumer_thread, ppc, cpc, it, i, item,
                   queue, out, trace>>

\* line 23: join() returns when the producer thread has ended
MainJoinProducerReturn(r) ==
    /\ mainpc[r] = "L23_join_wait"
    /\ producer_thread[r] = "stopped"
    /\ mainpc' = [mainpc EXCEPT ![r] = "L25"]
    /\ UNCHANGED <<runs, producer_thread, consumer_thread, ppc, cpc, it, i, item,
                   queue, out, trace>>

\* line 25: consumer_thread.start()
MainStartConsumer(r) ==
    /\ mainpc[r] = "L25"
    /\ consumer_thread[r] = "initial"
    /\ consumer_thread' = [consumer_thread EXCEPT ![r] = "starting"]
    /\ mainpc' = [mainpc EXCEPT ![r] = "L25_started_wait"]
    /\ UNCHANGED <<runs, producer_thread, ppc, cpc, it, i, item, queue, out,
                   trace>>

\* the new thread signals that it is running and enters consumer()
ConsumerBootstrap(r) ==
    /\ consumer_thread[r] = "starting"
    /\ consumer_thread' = [consumer_thread EXCEPT ![r] = "started"]
    /\ cpc' = [cpc EXCEPT ![r] = "L14"]
    /\ UNCHANGED <<runs, mainpc, producer_thread, ppc, it, i, item, queue, out,
                   trace>>

\* line 25: start() returns once the thread has signalled
MainStartConsumerReturn(r) ==
    /\ mainpc[r] = "L25_started_wait"
    /\ consumer_thread[r] \in {"started", "stopped"}
    /\ mainpc' = [mainpc EXCEPT ![r] = "L26"]
    /\ UNCHANGED <<runs, producer_thread, consumer_thread, ppc, cpc, it, i, item,
                   queue, out, trace>>

\* line 26: consumer_thread.join() is called
MainJoinConsumer(r) ==
    /\ mainpc[r] = "L26"
    /\ mainpc' = [mainpc EXCEPT ![r] = "L26_join_wait"]
    /\ UNCHANGED <<runs, producer_thread, consumer_thread, ppc, cpc, it, i, item,
                   queue, out, trace>>

\* line 26: join() returns when the consumer thread has ended; the module
\* ends and the program exits
MainJoinConsumerReturn(r) ==
    /\ mainpc[r] = "L26_join_wait"
    /\ consumer_thread[r] = "stopped"
    /\ mainpc' = [mainpc EXCEPT ![r] = "exit"]
    /\ UNCHANGED <<runs, producer_thread, consumer_thread, ppc, cpc, it, i, item,
                   queue, out, trace>>

-----------------------------------------------------------------------------

\* one step of the producer thread of run r
Producer(r) ==
    \/ ProducerBootstrap(r)
    \/ ProducerFor(r)
    \/ ProducerPut(r)
    \/ ProducerPrint(r)
    \/ ProducerReturn(r)

\* one step of the consumer thread of run r
Consumer(r) ==
    \/ ConsumerBootstrap(r)
    \/ ConsumerWhile(r)
    \/ ConsumerGet(r)
    \/ ConsumerPrint(r)
    \/ ConsumerReturn(r)

\* one step of the main thread of run r
Main(r) ==
    \/ MainCreateProducer(r)
    \/ MainCreateConsumer(r)
    \/ MainStartProducer(r)
    \/ MainStartProducerReturn(r)
    \/ MainJoinProducer(r)
    \/ MainJoinProducerReturn(r)
    \/ MainStartConsumer(r)
    \/ MainStartConsumerReturn(r)
    \/ MainJoinConsumer(r)
    \/ MainJoinConsumerReturn(r)

Next == \E r \in runs : Main(r) \/ Producer(r) \/ Consumer(r)

\* one run of the program, any scheduling of its three threads
Spec == Init /\ [][Next]_vars

\* one run under a scheduler that lets every thread that can run take steps
FairSpec ==
    /\ Spec
    /\ WF_vars(Main(1))
    /\ WF_vars(Producer(1))
    /\ WF_vars(Consumer(1))

\* two independent runs of the program, scheduled independently
PairSpec == PairInit /\ [][Next]_vars

-----------------------------------------------------------------------------
(* operators the properties are stated with *)

IsPrefix(s, t) == Len(s) <= Len(t) /\ SubSeq(t, 1, Len(s)) = s

Items == 0 .. (NumItems - 1)

IsProducedLine(l) == \E v \in Items : l = ProducedLine(v)

IsConsumedLine(l) == \E v \in Items : l = ConsumedLine(v)

IsPut(e) == e.op = "put"

IsGet(e) == e.op = "get"

IsCheck(e) == e.op = "empty"

IsPrint(e) == e.op = "print"

\* the items of the events of history t that satisfy Test, in order
ItemsOf(t, Test(_)) ==
    LET s == SelectSeq(t, Test) IN [k \in 1 .. Len(s) |-> s[k].item]

PutLog(r) == ItemsOf(trace[r], IsPut)

GetLog(r) == ItemsOf(trace[r], IsGet)

ExpectedOutput ==
    <<"Produced: 0", "Produced: 1", "Produced: 2", "Produced: 3", "Produced: 4",
      "Consumed: 0", "Consumed: 1", "Consumed: 2", "Consumed: 3", "Consumed: 4">>

Live == {"starting", "started"}

-----------------------------------------------------------------------------

\* C1: the output is always a prefix of the ten lines Produced: 0..4,
\* Consumed: 0..4, and it is exactly these ten lines once the main flow has
\* joined both threads.
C1_Output ==
    \A r \in runs :
        /\ IsPrefix(out[r], ExpectedOutput)
        /\ mainpc[r] = "exit" => out[r] = ExpectedOutput

C1_Witness == mainpc[1] = "exit" /\ Len(out[1]) = 2 * NumItems

\* C2: a Consumed line is printed only when all five Produced lines have been
\* printed, no Produced line follows a Consumed line, and the Consumed lines
\* carry 0,1,2,3,4 in this order.
C2_ConsumedAfterProduced ==
    \A r \in runs :
        /\ \A k \in 1 .. Len(out[r]) :
              IsConsumedLine(out[r][k]) =>
                 /\ Len(SelectSeq(SubSeq(out[r], 1, k - 1), IsProducedLine)) = NumItems
                 /\ \A j \in k .. Len(out[r]) : ~IsProducedLine(out[r][j])
        /\ IsPrefix(SelectSeq(out[r], IsConsumedLine),
                    [v \in 1 .. NumItems |-> ConsumedLine(v - 1)])

C2_Witness ==
    /\ Len(SelectSeq(out[1], IsConsumedLine)) = NumItems
    /\ Len(SelectSeq(out[1], IsProducedLine)) = NumItems

\* C3: the producer thread and the consumer thread are never live together,
\* and the consumer thread is started only after join() on the producer
\* thread has returned.
C3_NoOverlap ==
    \A r \in runs :
        /\ ~(producer_thread[r] \in Live /\ consumer_thread[r] \in Live)
        /\ consumer_thread[r] \in Live \cup {"stopped"} =>
              /\ producer_thread[r] = "stopped"
              /\ mainpc[r] \in {"L25_started_wait", "L26", "L26_join_wait", "exit"}

C3_Witness ==
    /\ consumer_thread[1] = "started"
    /\ cpc[1] = "L16"
    /\ producer_thread[1] = "stopped"

\* C4: the items the consumer has got are a prefix of the items the producer
\* has put.
C4_Fifo == \A r \in runs : IsPrefix(GetLog(r), PutLog(r))

C4_Witness == Len(GetLog(1)) = NumItems /\ Len(PutLog(1)) = NumItems

\* C5: once the consumer thread has finished and has been joined, the queue
\* is empty.
C5_EmptyAtEnd ==
    \A r \in runs :
        mainpc[r] = "exit" =>
            /\ consumer_thread[r] = "stopped"
            /\ Empty(queue[r])

C5_Witness ==
    /\ mainpc[1] = "exit"
    /\ Len(PutLog(1)) = NumItems
    /\ Empty(queue[1])

\* C6: under fair scheduling every run reaches the end of the program, the
\* producer thread ending after its fifth put; until then some thread can
\* always take a step (no deadlock: get() and the joins never wait forever).
C6_Terminates ==
    /\ <>(\A r \in runs : mainpc[r] = "exit")
    /\ [](\A r \in runs :
            /\ mainpc[r] # "exit" => ENABLED (Main(r) \/ Producer(r) \/ Consumer(r))
            /\ producer_thread[r] = "stopped" => Len(PutLog(r)) = NumItems)

C6_Witness ==
    /\ mainpc[1] = "exit"
    /\ producer_thread[1] = "stopped"
    /\ consumer_thread[1] = "stopped"

\* one of two histories is a prefix of the other
Comparable(s, t) == IsPrefix(s, t) \/ IsPrefix(t, s)

\* C7: two runs of the program, however each is scheduled, never disagree on
\* the output lines or on the queue operations, and two finished runs have
\* the same output and the same history.
C7_Deterministic ==
    runs = {1, 2} =>
        /\ Comparable(out[1], out[2])
        /\ Comparable(trace[1], trace[2])
        /\ (mainpc[1] = "exit" /\ mainpc[2] = "exit") =>
              (out[1] = out[2] /\ trace[1] = trace[2])

C7_Witness ==
    /\ runs = {1, 2}
    /\ mainpc[1] = "exit"
    /\ mainpc[2] = "exit"
    /\ Len(out[1]) = 2 * NumItems
    /\ out[1] = out[2]

\* the events of thread t in the history of run r
EventsOf(r, t) == SelectSeq(trace[r], LAMBDA e : e.by = t)

\* C8: at the consumer's first emptiness check the queue holds 0,1,2,3,4, and
\* when its loop has exited it has done exactly five get() calls.
C8_SeesAllFive ==
    \A r \in runs :
        /\ (cpc[r] = "L14" /\ Len(SelectSeq(trace[r], IsCheck)) = 0) =>
              queue[r] = [k \in 1 .. NumItems |-> k - 1]
        /\ cpc[r] \in {"return", "done"} => Len(GetLog(r)) = NumItems

C8_Witness ==
    /\ cpc[1] = "L15"
    /\ Len(SelectSeq(trace[1], IsCheck)) = 1
    /\ Len(queue[1]) = NumItems

\* C9: the producer's events strictly alternate put(0), print(0), put(1),
\* print(1), ...: every Produced line reports the item put just before it.
C9_PutThenPrint ==
    \A r \in runs :
        LET pe == EventsOf(r, "producer") IN
        \A k \in 1 .. Len(pe) :
            IF k % 2 = 1
            THEN IsPut(pe[k]) /\ pe[k].item = (k - 1) \div 2
            ELSE /\ IsPrint(pe[k])
                 /\ pe[k].line = ProducedLine(pe[k - 1].item)
                 /\ pe[k].line \in {out[r][j] : j \in 1 .. Len(out[r])}

C9_Witness ==
    /\ Len(PutLog(1)) = 3
    /\ Len(SelectSeq(out[1], IsProducedLine)) = 2

\* C10: the consumer gets an item only directly after an emptiness check that
\* returned false; an emptiness check that returns true is its last event
\* and its thread then ends.
C10_StopsWhenEmpty ==
    \A r \in runs :
        LET ce == EventsOf(r, "consumer") IN
        /\ \A k \in 1 .. Len(ce) :
              /\ IsGet(ce[k]) =>
                    /\ k > 1
                    /\ IsCheck(ce[k - 1])
                    /\ ~ce[k - 1].result
              /\ (IsCheck(ce[k]) /\ ce[k].result) =>
                    /\ k = Len(ce)
                    /\ cpc[r] \in {"return", "done"}
        /\ cpc[r] = "done" => consumer_thread[r] = "stopped"

C10_Witness ==
    /\ cpc[1] = "done"
    /\ Len(GetLog(1)) = NumItems
    /\ LET ce == EventsOf(1, "consumer") IN IsCheck(ce[Len(ce)]) /\ ce[Len(ce)].result

IsSuffix(s, t) == Len(s) <= Len(t) /\ SubSeq(t, Len(t) - Len(s) + 1, Len(t)) = s

\* C11: in every step, while the producer thread is live the queue only
\* grows at its tail; from the start of the consumer thread on it only shrinks
\* at its head; before the producer thread starts and after the consumer
\* thread has ended it does not change.
C11_Ownership ==
    [][\A r \in runs :
          /\ producer_thread[r] \in Live => IsPrefix(queue[r], queue'[r])
          /\ consumer_thread[r] \in Live \cup {"stopped"} =>
                IsSuffix(queue'[r], queue[r])
          /\ (producer_thread[r] \in {"unset", "initial"}
                \/ consumer_thread[r] = "stopped") => queue'[r] = queue[r]]_vars

C11_Witness ==
    /\ consumer_thread[1] \in Live
    /\ producer_thread[1] = "stopped"
    /\ Len(queue[1]) = 2
    /\ Len(GetLog(1)) = 3

\* C12: whenever the consumer is about to execute queue.get() the queue holds
\* at least one item, so get() does not wait.
C12_GetNeverOnEmpty ==
    \A r \in runs :
        cpc[r] = "L15" => (~Empty(queue[r]) /\ ENABLED ConsumerGet(r))

C12_Witness == cpc[1] = "L15" /\ Len(queue[1]) = 1

\* C13: the items got followed by the queue contents are the items put, which
\* are a prefix of 0,1,2,3,4; the queue never holds more than five items, no
\* item is got twice, and there are never more Consumed lines than puts.
C13_Conservation ==
    \A r \in runs :
        /\ GetLog(r) \o queue[r] = PutLog(r)
        /\ IsPrefix(PutLog(r), [k \in 1 .. NumItems |-> k - 1])
        /\ Len(queue[r]) <= NumItems
        /\ \A j, k \in 1 .. Len(GetLog(r)) :
              GetLog(r)[j] = GetLog(r)[k] => j = k
        /\ Len(SelectSeq(out[r], IsConsumedLine)) <= Len(PutLog(r))

C13_Witness == Len(GetLog(1)) = 2 /\ Len(queue[1]) = 3

\* C14: the queue starts empty and is never full, so put() is enabled
\* whenever the producer is at line 9, with no consumer running, and the
\* producer leaves its loop with all five puts done.
C14_PutNeverBlocks ==
    \A r \in runs :
        /\ mainpc[r] = "L19" => Empty(queue[r])
        /\ ~Full(queue[r])
        /\ ppc[r] = "L9" =>
              (ENABLED ProducerPut(r) /\ consumer_thread[r] \notin Live)
        /\ ppc[r] \in {"return", "done"} => Len(PutLog(r)) = NumItems

C14_Witness ==
    /\ ppc[1] = "L10"
    /\ Len(queue[1]) = NumItems
    /\ consumer_thread[1] = "initial"

====
